---- MODULE Spec2Model ----
(***************************************************************************)
(* Job orchestration (job_queue.py), pipeline runner (worker.py) and the   *)
(* vector store writes (vector_db.py) of VideoSearch-AI.                   *)
(*                                                                         *)
(* The Job Store (Redis key job_metadata:<video_id>) is `meta`, the RQ job *)
(* handle "video_<video_id>" is `rq`, the Qdrant collection is `points`.   *)
(* One worker executes process_video step by step; the web process runs    *)
(* enqueue_video_processing and get_job_status concurrently with it.       *)
(***************************************************************************)
EXTENDS Integers, Sequences, FiniteSets, TLC

(* ------------------------------ bounds --------------------------------- *)
MaxFrames == 2
MaxSegments == 1
MaxRuns == 2
MaxDeletes == 2

Videos == {"a"}

(* ------------------------------ values --------------------------------- *)
None == "None"
NoRecord == [absent |-> TRUE]

RECURSIVE Gcd(_, _)
Gcd(a, b) == IF b = 0 THEN a ELSE Gcd(b, a % b)

RECURSIVE LcmUpTo(_)
LcmUpTo(n) == IF n <= 1 THEN 1 ELSE (LcmUpTo(n - 1) * n) \div Gcd(LcmUpTo(n - 1), n)

\* Progress is a float in [0.0, 1.0]; it is held as an exact multiple of
\* 1/PScale, PScale chosen so that every value the runner writes is exact.
PScale == 20 * LcmUpTo(MaxFrames)
Frac(n, d) == (PScale * n) \div d

JobId(video_id) == "video_" \o video_id

\* str(job.exc_info): RQ stores the formatted traceback of the exception.
ExcInfo(e) == "Traceback (most recent call last): " \o e
HorseKilled == "Work-horse terminated unexpectedly"
TimeoutMsg == "Task exceeded maximum timeout value (3600 seconds)"

Terminal(status) == status \in {"completed", "failed"}

(* --------------------------- job_queue.py ------------------------------ *)
\* `metadata = self._get_job_metadata(video_id) or {}`: the dict a write
\* starts from.  Absent string keys read as None, absent numeric keys read
\* as the 0 that main.get_job_status substitutes for them.
OrEmpty(m) ==
    IF m = NoRecord
    THEN [job_id |-> None, video_id |-> None, status |-> None,
          progress |-> 0, frames_processed |-> 0, total_frames |-> 0,
          created_at |-> None, error |-> None]
    ELSE m

\* The initial record under the bare video id instead of the job id.
InitialMetadata_BareId(video_id) ==
    [job_id |-> video_id, video_id |-> video_id, status |-> "pending",
     progress |-> 0, frames_processed |-> 0, total_frames |-> 0,
     created_at |-> "utcnow", error |-> None]

InitialMetadata(video_id) ==
    [job_id |-> JobId(video_id), video_id |-> video_id, status |-> "pending",
     progress |-> 0, frames_processed |-> 0, total_frames |-> 0,
     created_at |-> "utcnow", error |-> None]

update_job_progress(m, progress, frames_processed, total_frames, status) ==
    [OrEmpty(m) EXCEPT !.progress = progress,
                       !.frames_processed = frames_processed,
                       !.total_frames = total_frames,
                       !.status = status]

mark_job_complete(m) == update_job_progress(m, Frac(1, 1), 0, 0, "completed")

\* mark_job_failed writing through update_job_progress, which resets the
\* counters to their defaults.
mark_job_failed_ResetsProgress(m, error) ==
    [update_job_progress(m, 0, 0, 0, "failed") EXCEPT !.error = error]

mark_job_failed(m, error) ==
    [OrEmpty(m) EXCEPT !.status = "failed", !.error = error]

\* get_job_status without the `if job.is_failed` branch.
get_job_status_NoFailedBranch(m, job) ==
    IF m = NoRecord THEN NoRecord
    ELSE IF m.job_id = None THEN m
    ELSE IF job.status = "none" THEN m
    ELSE IF job.status = "finished"
         THEN [m EXCEPT !.status = "completed", !.progress = Frac(1, 1)]
    ELSE IF job.status = "started"
         THEN [m EXCEPT !.status = "processing"]
    ELSE m

\* get_job_status returning an empty default record where none is stored.
get_job_status_DefaultRecord(m, job) ==
    IF m = NoRecord THEN OrEmpty(m)
    ELSE IF m.job_id = None THEN m
    ELSE IF job.status = "none" THEN m
    ELSE IF job.status = "failed"
         THEN [m EXCEPT !.status = "failed",
                        !.error = IF job.exc_info # None
                                  THEN job.exc_info ELSE "Unknown error"]
    ELSE IF job.status = "finished"
         THEN [m EXCEPT !.status = "completed", !.progress = Frac(1, 1)]
    ELSE IF job.status = "started"
         THEN [m EXCEPT !.status = "processing"]
    ELSE m

\* job is the RQ handle [status, exc_info]; status "none" is Job.fetch raising.
get_job_status(m, job) ==
    IF m = NoRecord THEN NoRecord
    ELSE IF m.job_id = None THEN m
    ELSE IF job.status = "none" THEN m
    ELSE IF job.status = "failed"
         THEN [m EXCEPT !.status = "failed",
                        !.error = IF job.exc_info # None
                                  THEN job.exc_info ELSE "Unknown error"]
    ELSE IF job.status = "finished"
         THEN [m EXCEPT !.status = "completed", !.progress = Frac(1, 1)]
    ELSE IF job.status = "started"
         THEN [m EXCEPT !.status = "processing"]
    ELSE m

\* job_queue.py:184  self.redis_conn.expire(key, 86400)
job_metadata_ttl == 86400

\* The expiry of the key job_metadata:<video_id>: left is the seconds Redis
\* will keep it (<<>> is no expiry), idle the seconds since it was last
\* set.  NoKey is a key that was never set.
NoKey == [left |-> <<>>, idle |-> 0]

\* SET alone: the key is written and any expiry it had is dropped.
redis_set(t) == [left |-> <<>>, idle |-> 0]

\* _set_job_metadata keeping the expiry a key already has.
_set_job_metadata_KeepsExpiry(t) ==
    [left |-> IF t.left = <<>> THEN <<job_metadata_ttl>> ELSE t.left,
     idle |-> 0]

\* job_queue.py:179-184  SET and then EXPIRE key 86400.
_set_job_metadata(t) == [redis_set(t) EXCEPT !.left = <<job_metadata_ttl>>]

(* ------------------------------ main.py -------------------------------- *)
\* GET /status/{video_id}: `if not status: raise HTTPException(404)`, else
\* the record with the defaults of status.get(key, default).
StatusEndpoint(video_id, status) ==
    IF status = NoRecord
    THEN [code |-> 404, detail |-> "Job not found"]
    ELSE [code |-> 200,
          job_id |-> IF status.job_id = None THEN "" ELSE status.job_id,
          video_id |-> video_id,
          status |-> IF status.status = None THEN "pending" ELSE status.status,
          progress |-> status.progress,
          frames_processed |-> status.frames_processed,
          total_frames |-> status.total_frames,
          error |-> status.error]

(* ----------------------------- vector_db.py ---------------------------- *)
\* Timestamps are tenths of a second and scores hundredths, so that 10.4 s
\* is 104 and the score 0.15 is 15.  An optional argument is a sequence:
\* <<>> is Python's None and <<x>> the value x.

\* config.py:38  min_search_score: float = Field(default=0.15, ...)
min_search_score == 15

\* Python's x or y on an optional number: None and 0.0 are both falsy.
NumberOr(x, default) == IF x = <<>> \/ x[1] = 0 THEN default ELSE x[1]

\* Python's truth value of an optional string: None and "" are both falsy.
Truthy(x) == x # <<>> /\ x[1] # ""

\* round(x) rounding toward minus infinity instead of to nearest.
round_Floor(n, d) == n \div d

\* Python 3 round(n / d) on non-negative numbers: to the nearest integer,
\* a tie going to the even one.
round(n, d) ==
    LET q == n \div d
        r == n % d
    IN  IF 2 * r < d THEN q
        ELSE IF 2 * r > d THEN q + 1
        ELSE IF q % 2 = 0 THEN q ELSE q + 1

\* vector_db.py:243  window_key = round(timestamp / 2) * 2, in seconds;
\* timestamp / 2 in seconds is timestamp / 20 in tenths.
window_key(timestamp) == round(timestamp, 20) * 2

\* vector_db.py:205-224  the query filter: a condition per truthy argument.
search_filter(video_id, result_type) ==
    [video_id |-> IF Truthy(video_id) THEN video_id ELSE <<>>,
     type |-> IF Truthy(result_type) THEN result_type ELSE <<>>]

Matches(hit, filter) ==
    /\ filter.video_id # <<>> => hit.video_id = filter.video_id[1]
    /\ filter.type # <<>> => hit.type = filter.type[1]

\* Qdrant query_points: the points that satisfy the filter and score at
\* least score_threshold, best first, at most limit of them.
query_points(store, query_filter, limit, score_threshold) ==
    LET hits == SelectSeq(store, LAMBDA h : /\ Matches(h, query_filter)
                                            /\ h.score >= score_threshold)
    IN  SubSeq(hits, 1, IF Len(hits) < limit THEN Len(hits) ELSE limit)

\* The loop of vector_db.py:236-258 stopping one hit late (> for >=).
RECURSIVE dedup_StopsLate(_, _, _, _, _)
dedup_StopsLate(hits, i, seen_timestamps, processed, top_k) ==
    IF i > Len(hits) THEN processed
    ELSE IF window_key(hits[i].timestamp) \in seen_timestamps
         THEN dedup_StopsLate(hits, i + 1, seen_timestamps, processed, top_k)
    ELSE LET appended == Append(processed, hits[i])
         IN  IF Len(appended) > top_k THEN appended
             ELSE dedup_StopsLate(hits, i + 1,
                        seen_timestamps \cup {window_key(hits[i].timestamp)},
                        appended, top_k)

\* The loop of vector_db.py:236-258 that never skips a seen window.
RECURSIVE dedup_KeepsAll(_, _, _, _, _)
dedup_KeepsAll(hits, i, seen_timestamps, processed, top_k) ==
    IF i > Len(hits) THEN processed
    ELSE LET appended == Append(processed, hits[i])
         IN  IF Len(appended) >= top_k THEN appended
             ELSE dedup_KeepsAll(hits, i + 1, seen_timestamps, appended, top_k)

\* The loop of vector_db.py:236-258 remembering a window per result type.
RECURSIVE dedup_PerType(_, _, _, _, _)
dedup_PerType(hits, i, seen_timestamps, processed, top_k) ==
    IF i > Len(hits) THEN processed
    ELSE IF <<hits[i].type, window_key(hits[i].timestamp)>> \in seen_timestamps
         THEN dedup_PerType(hits, i + 1, seen_timestamps, processed, top_k)
    ELSE LET appended == Append(processed, hits[i])
         IN  IF Len(appended) >= top_k THEN appended
             ELSE dedup_PerType(hits, i + 1,
                        seen_timestamps
                            \cup {<<hits[i].type, window_key(hits[i].timestamp)>>},
                        appended, top_k)

\* vector_db.py:236-258  the loop over results.points from position i on.
RECURSIVE dedup(_, _, _, _, _)
dedup(hits, i, seen_timestamps, processed, top_k) ==
    IF i > Len(hits) THEN processed
    ELSE IF window_key(hits[i].timestamp) \in seen_timestamps
         THEN dedup(hits, i + 1, seen_timestamps, processed, top_k)
    ELSE LET appended == Append(processed, hits[i])
         IN  IF Len(appended) >= top_k THEN appended
             ELSE dedup(hits, i + 1,
                        seen_timestamps \cup {window_key(hits[i].timestamp)},
                        appended, top_k)

\* vector_db.py:203 and 226-233  what VectorDB.search sends to query_points.
search_query(video_id, result_type, top_k, min_score) ==
    [query_filter |-> search_filter(video_id, result_type),
     limit |-> top_k * 2,
     score_threshold |-> NumberOr(min_score, min_search_score)]

(* ------------------------ ai_service.py, models.py --------------------- *)
\* A query is a sequence of characters.
Whitespace == {" ", "\t", "\n"}

RECURSIVE lstrip(_)
lstrip(query) ==
    IF query # <<>> /\ Head(query) \in Whitespace
    THEN lstrip(Tail(query)) ELSE query

RECURSIVE rstrip(_)
rstrip(query) ==
    IF query # <<>> /\ query[Len(query)] \in Whitespace
    THEN rstrip(SubSeq(query, 1, Len(query) - 1)) ELSE query

\* str.strip()
strip(query) == rstrip(lstrip(query))

\* ai_service.py:138  `if not query or not query.strip()`
EmptyQuery(query) == query = <<>> \/ strip(query) = <<>>

\* models.py:36-40  SearchRequest: video_id is any string, query has
\* min_length=1 and max_length=500, top_k has ge=1 and le=20.
SearchRequest(video_id, query, top_k) ==
    /\ Len(query) >= 1 /\ Len(query) <= 500
    /\ top_k >= 1 /\ top_k <= 20

(* --------------------------- ai_service.py ----------------------------- *)
\* ai_service.py:40, 104, 189  stop=stop_after_attempt(3)
stop_after_attempt == 3

\* ai_service.py:42, 106, 191  retry=retry_if_exception_type((...))
retry_if_exception_type(exc) ==
    exc \in {"httpx.RequestError", "httpx.HTTPStatusError"}

\* ai_service.py:61-63, 132-134, 229-231  `except Exception as e: raise
\* AIServiceError(...)` inside the decorated function: what the function
\* raises when its HTTP request raised exc.
raised_by_body(exc) == "AIServiceError"

\* tenacity's @retry around a function whose HTTP request raises exc at
\* every attempt: the attempts made and the exception that leaves the
\* call (RetryError when the attempts are exhausted, no reraise=True).
RECURSIVE retry(_, _)
retry(exc, attempt_number) ==
    IF ~retry_if_exception_type(raised_by_body(exc))
    THEN [attempts |-> attempt_number, raised |-> raised_by_body(exc)]
    ELSE IF attempt_number >= stop_after_attempt
    THEN [attempts |-> attempt_number, raised |-> "tenacity.RetryError"]
    ELSE retry(exc, attempt_number + 1)

(* ------------------------------- state --------------------------------- *)
VARIABLES
    meta,       \* Job Store: video_id -> record or NoRecord
    rq,         \* Queue Backend: video_id -> [status, exc_info] of job video_<id>
    enq,        \* position of enqueue_video_processing for each video
    worker,     \* process_video: position and locals of the execution
    points,     \* Vector Store: set of indexed points
    temp_dir,   \* does settings.temp_dir / video_id exist
    hist,       \* what happened in the current execution (faults, calls)
    lastRead,   \* the last value get_job_status returned for each video
    sawTerminal, \* has some read of the video returned a terminal status
    req,        \* POST /search: the ranked collection, the request, the response
    deletion,   \* VectorDB.delete_video: position, locals and record of calls
    ttl         \* seconds until Redis expires job_metadata:<video_id>

vars == <<meta, rq, enq, worker, points, temp_dir, hist, lastRead, sawTerminal,
          req, deletion, ttl>>

IdleWorker ==
    [pc |-> "idle", has_audio |-> FALSE, total_frames |-> 0, i |-> 0,
     frames_indexed |-> 0, segments |-> 0, j |-> 0, e |-> None]

NoHist == [runs |-> 0, faults |-> {}, embed_failed |-> 0, timed_out |-> FALSE,
           calls |-> {}, outcome |-> None, attempts |-> 0]

Unread == [unread |-> TRUE]

\* No search has been served; the collection holds nothing the query matches.
\* store is the collection as Qdrant ranks it for the query (score
\* descending); sent is what query_points received, if it was called.
NoSearch ==
    [store |-> <<>>, op |-> "none", args |-> <<>>, calls |-> {},
     sent |-> <<>>, candidates |-> <<>>, outcome |-> "none", results |-> <<>>]

\* A call of delete_video that has ended: what it returned, how many points
\* of the video it removed, the collection it left, and whether no point of
\* the video was indexed since the call before it began.
NoCall == [outcome |-> "none", returned |-> 0, removed |-> 0, left |-> {},
           quiet |-> TRUE]

\* No delete_video is running and none has run.  indexed: a point of the
\* video was indexed since the running or last call began.
NoDeletion ==
    [pc |-> "idle", count_before |-> 0, calls |-> 0, indexed |-> FALSE,
     quiet |-> TRUE, prev |-> NoCall, last |-> NoCall]

Init ==
    /\ meta = [v \in Videos |-> NoRecord]
    /\ rq = [v \in Videos |-> [status |-> "none", exc_info |-> None]]
    /\ enq = [v \in Videos |-> "none"]
    /\ worker = [v \in Videos |-> IdleWorker]
    /\ points = {}
    /\ temp_dir = [v \in Videos |-> FALSE]
    /\ hist = [v \in Videos |-> NoHist]
    /\ lastRead = [v \in Videos |-> Unread]
    /\ sawTerminal = [v \in Videos |-> FALSE]
    /\ req = NoSearch
    /\ deletion = [v \in Videos |-> NoDeletion]
    /\ ttl = [v \in Videos |-> IF meta[v] = NoRecord THEN NoKey
                                ELSE _set_job_metadata(NoKey)]

(* --------------------- enqueue_video_processing ------------------------ *)
\* job_queue.py:70-76  self.queue.enqueue(..., job_id=f"video_{video_id}")
EnqueueSubmit(v) ==
    /\ enq[v] = "none"
    /\ rq' = [rq EXCEPT ![v] = [status |-> "queued", exc_info |-> None]]
    /\ enq' = [enq EXCEPT ![v] = "submitted"]
    /\ UNCHANGED <<meta, worker, points, temp_dir, hist, lastRead,
                   sawTerminal, req, deletion, ttl>>

\* job_queue.py:79-90  self._set_job_metadata(video_id, {...})
EnqueueStore(v) ==
    /\ enq[v] = "submitted"
    /\ meta' = [meta EXCEPT ![v] = InitialMetadata(v)]
    /\ enq' = [enq EXCEPT ![v] = "stored"]
    /\ ttl' = [ttl EXCEPT ![v] = _set_job_metadata(@)]
    /\ UNCHANGED <<rq, worker, points, temp_dir, hist, lastRead, sawTerminal,
                   req, deletion>>

\* Redis is unreachable when enqueue_video_processing is called:
\* job_queue.py:70 queue.enqueue raises and nothing was written.
EnqueueSubmitFail(v) ==
    /\ enq[v] = "none"
    /\ enq' = [enq EXCEPT ![v] = "failed"]
    /\ UNCHANGED <<meta, rq, worker, points, temp_dir, hist, lastRead,
                   sawTerminal, req, deletion, ttl>>

\* Redis becomes unreachable after queue.enqueue returned: job_queue.py:182
\* redis_conn.set raises out of _set_job_metadata and of the enqueue.
EnqueueStoreFail(v) ==
    /\ enq[v] = "submitted"
    /\ enq' = [enq EXCEPT ![v] = "failed"]
    /\ UNCHANGED <<meta, rq, worker, points, temp_dir, hist, lastRead,
                   sawTerminal, req, deletion, ttl>>

\* Redis becomes unreachable after redis_conn.set wrote the record:
\* job_queue.py:184 redis_conn.expire raises out of the enqueue.
EnqueueExpireFail(v) ==
    /\ enq[v] = "submitted"
    /\ meta' = [meta EXCEPT ![v] = InitialMetadata(v)]
    /\ enq' = [enq EXCEPT ![v] = "failed"]
    /\ ttl' = [ttl EXCEPT ![v] = redis_set(@)]
    /\ UNCHANGED <<rq, worker, points, temp_dir, hist, lastRead, sawTerminal,
                   req, deletion>>

(* --------------------------- get_job_status ---------------------------- *)
StatusOf(v) == get_job_status(meta[v], rq[v])

GetStatus(v) ==
    /\ lastRead' = [lastRead EXCEPT ![v] = StatusOf(v)]
    /\ sawTerminal' = [sawTerminal EXCEPT ![v] =
            @ \/ (StatusOf(v) # NoRecord /\ Terminal(StatusOf(v).status))]
    /\ UNCHANGED <<meta, rq, enq, worker, points, temp_dir, hist, req,
                   deletion, ttl>>

(* ------------------------- Queue Backend (RQ) -------------------------- *)
\* A worker takes the queued job: RQ sets the handle to started and calls
\* process_video(video_id, video_path) in a work-horse.
RQStart(v) ==
    /\ rq[v].status = "queued"
    /\ worker[v].pc = "idle"
    /\ rq' = [rq EXCEPT ![v].status = "started"]
    /\ worker' = [worker EXCEPT ![v] = [IdleWorker EXCEPT !.pc = "start"]]
    /\ hist' = [hist EXCEPT ![v] = [NoHist EXCEPT !.runs = hist[v].runs + 1]]
    /\ UNCHANGED <<meta, enq, points, temp_dir, lastRead, sawTerminal, req,
                   deletion, ttl>>

\* process_video returned: RQ marks the handle finished.
RQFinish(v) ==
    /\ worker[v].pc = "returned"
    /\ rq' = [rq EXCEPT ![v] = [status |-> "finished", exc_info |-> None]]
    /\ worker' = [worker EXCEPT ![v].pc = "idle"]
    /\ UNCHANGED <<meta, enq, points, temp_dir, hist, lastRead, sawTerminal,
                   req, deletion, ttl>>

\* process_video raised (worker.py:161): RQ marks the handle failed and
\* keeps the traceback as exc_info.
RQFail(v) ==
    /\ worker[v].pc = "raised"
    /\ rq' = [rq EXCEPT ![v] = [status |-> "failed",
                                exc_info |-> ExcInfo(worker[v].e)]]
    /\ worker' = [worker EXCEPT ![v].pc = "idle"]
    /\ UNCHANGED <<meta, enq, points, temp_dir, hist, lastRead, sawTerminal,
                   req, deletion, ttl>>

\* The work-horse dies (kill, out of memory) anywhere inside process_video,
\* the except handler included: nothing more is written by the runner.
Crash(v) ==
    /\ worker[v].pc \notin {"idle", "returned", "raised", "killed"}
    /\ worker' = [worker EXCEPT ![v].pc = "killed"]
    /\ hist' = [hist EXCEPT ![v].outcome = "killed"]
    /\ UNCHANGED <<meta, rq, enq, points, temp_dir, lastRead, sawTerminal,
                   req, deletion, ttl>>

\* RQ's worker notices the dead work-horse and marks the handle failed.
RQReap(v) ==
    /\ worker[v].pc = "killed"
    /\ rq' = [rq EXCEPT ![v] = [status |-> "failed", exc_info |-> HorseKilled]]
    /\ worker' = [worker EXCEPT ![v].pc = "idle"]
    /\ UNCHANGED <<meta, enq, points, temp_dir, hist, lastRead, sawTerminal,
                   req, deletion, ttl>>

\* At-least-once execution: the backend runs a failed job again (RQ requeues
\* jobs from its failed registry).
Requeue(v) ==
    /\ rq[v].status = "failed"
    /\ worker[v].pc = "idle"
    /\ hist[v].runs < MaxRuns
    /\ rq' = [rq EXCEPT ![v] = [status |-> "queued", exc_info |-> None]]
    /\ UNCHANGED <<meta, enq, worker, points, temp_dir, hist, lastRead,
                   sawTerminal, req, deletion, ttl>>

\* The handle of a finished job expires (result TTL) long before the job
\* record does: Job.fetch then raises and job_queue.py:122 passes.
HandleExpire(v) ==
    /\ rq[v].status = "finished"
    /\ worker[v].pc = "idle"
    /\ rq' = [rq EXCEPT ![v] = [status |-> "none", exc_info |-> None]]
    /\ UNCHANGED <<meta, enq, worker, points, temp_dir, hist, lastRead,
                   sawTerminal, req, deletion, ttl>>

(* ---------------- enqueue_video_processing, called again --------------- *)
\* job_queue.py:70-76 for a video id that was enqueued before: RQ saves the
\* job under the same id video_<id>, which resets the handle to queued, and
\* pushes the id onto the queue a second time.
EnqueueAgainSubmit(v) ==
    /\ enq[v] = "stored"
    /\ rq' = [rq EXCEPT ![v] = [status |-> "queued", exc_info |-> None]]
    /\ enq' = [enq EXCEPT ![v] = "resubmitted"]
    /\ UNCHANGED <<meta, worker, points, temp_dir, hist, lastRead,
                   sawTerminal, req, deletion, ttl>>

\* job_queue.py:79-90 of the second call: the record is written again.
EnqueueAgainStore(v) ==
    /\ enq[v] = "resubmitted"
    /\ meta' = [meta EXCEPT ![v] = InitialMetadata(v)]
    /\ enq' = [enq EXCEPT ![v] = "restored"]
    /\ ttl' = [ttl EXCEPT ![v] = _set_job_metadata(@)]
    /\ UNCHANGED <<rq, worker, points, temp_dir, hist, lastRead, sawTerminal,
                   req, deletion>>

\* The second entry of the queue for video_<id> is taken once the first
\* execution has ended (executions of one video are not overlapped here).
RQStartDuplicate(v) ==
    /\ enq[v] \in {"resubmitted", "restored"}
    /\ hist[v].runs = 1
    /\ rq[v].status \in {"finished", "failed"}
    /\ worker[v].pc = "idle"
    /\ rq' = [rq EXCEPT ![v] = [status |-> "started", exc_info |-> None]]
    /\ worker' = [worker EXCEPT ![v] = [IdleWorker EXCEPT !.pc = "start"]]
    /\ hist' = [hist EXCEPT ![v] = [NoHist EXCEPT !.runs = hist[v].runs + 1]]
    /\ UNCHANGED <<meta, enq, points, temp_dir, lastRead, sawTerminal, req,
                   deletion, ttl>>

(* ------------------------------- search -------------------------------- *)
\* vector_db.py:182-263  VectorDB.search called directly; up is whether
\* Qdrant answers (otherwise query_points raises and VectorDBError leaves).
Search(video_id, result_type, top_k, min_score, up) ==
    LET sent == search_query(video_id, result_type, top_k, min_score)
        points_ == query_points(req.store, sent.query_filter, sent.limit,
                                sent.score_threshold)
    IN  /\ req.op = "none"
        /\ req' = [req EXCEPT
                !.op = "search",
                !.args = <<[video_id |-> video_id, result_type |-> result_type,
                            top_k |-> top_k, min_score |-> min_score]>>,
                !.calls = {"query_points"},
                !.sent = <<sent>>,
                !.candidates = IF up THEN points_ ELSE <<>>,
                !.outcome = IF up THEN "returned" ELSE "VectorDBError",
                !.results = IF up THEN dedup(points_, 1, {}, <<>>, top_k)
                            ELSE <<>>]
        /\ UNCHANGED <<meta, rq, enq, worker, points, temp_dir, hist, lastRead,
                       sawTerminal, deletion, ttl>>

\* main.py:210-251  POST /search.  The body is validated against
\* SearchRequest before search_video runs (422); every exception inside
\* search_video becomes 500.  embedder_up and qdrant_up are whether the two
\* collaborators answer.
SearchVideo(video_id, query, top_k, embedder_up, qdrant_up) ==
    LET args == <<[video_id |-> video_id, query |-> query, top_k |-> top_k]>>
        sent == search_query(<<video_id>>, <<>>, top_k, <<>>)
        points_ == query_points(req.store, sent.query_filter, sent.limit,
                                sent.score_threshold)
        idle == [NoSearch EXCEPT !.store = req.store, !.op = "search_video",
                                 !.args = args]
    IN  /\ req.op = "none"
        /\ req' =
              IF ~SearchRequest(video_id, query, top_k)
              THEN [idle EXCEPT !.outcome = "422"]
              ELSE IF EmptyQuery(query)
              THEN [idle EXCEPT !.outcome = "500"]
              ELSE IF ~embedder_up
              THEN [idle EXCEPT !.outcome = "500", !.calls = {"embeddings"}]
              ELSE IF ~qdrant_up
              THEN [idle EXCEPT !.outcome = "500",
                                !.calls = {"embeddings", "query_points"},
                                !.sent = <<sent>>]
              ELSE [idle EXCEPT !.outcome = "200",
                                !.calls = {"embeddings", "query_points"},
                                !.sent = <<sent>>,
                                !.candidates = points_,
                                !.results = dedup(points_, 1, {}, <<>>, top_k)]
        /\ UNCHANGED <<meta, rq, enq, worker, points, temp_dir, hist, lastRead,
                       sawTerminal, deletion, ttl>>

\* The response has been delivered; the next request can be served.  A
\* search reads the collection and writes nothing.
SearchDone ==
    /\ req.op # "none"
    /\ req' = [NoSearch EXCEPT !.store = req.store, !.outcome = "delivered"]
    /\ UNCHANGED <<meta, rq, enq, worker, points, temp_dir, hist, lastRead,
                   sawTerminal, deletion, ttl>>

(* ----------------------------- delete_video ---------------------------- *)
\* Qdrant count with the video_id condition (vector_db.py:277-287).
count(collection, video_id) ==
    Cardinality({p \in collection : p.video_id = video_id})

\* Qdrant delete that removes only the visual points of the video.
delete_VisualOnly(collection, video_id) ==
    {p \in collection : ~(p.video_id = video_id /\ p.type = "visual")}

\* Qdrant delete with the video_id condition (vector_db.py:290-302).
delete(collection, video_id) ==
    {p \in collection : p.video_id # video_id}

\* The record of calls after one more call has ended.
CallEnded(d, call) ==
    [d EXCEPT !.pc = "idle", !.calls = @ + 1, !.prev = d.last, !.last = call]

\* vector_db.py:275-287  delete_video begins: count_before = client.count.
\* up is whether Qdrant answers; if not, VectorDBError leaves (line 308).
DeleteCount(v, up) ==
    /\ deletion[v].pc = "idle"
    /\ deletion[v].calls < MaxDeletes
    /\ deletion' = [deletion EXCEPT ![v] =
          IF up
          THEN [@ EXCEPT !.pc = "counted",
                         !.count_before = count(points, v),
                         !.quiet = ~deletion[v].indexed,
                         !.indexed = FALSE]
          ELSE CallEnded([@ EXCEPT !.indexed = FALSE],
                      [NoCall EXCEPT !.outcome = "VectorDBError",
                                     !.left = points,
                                     !.quiet = ~deletion[v].indexed])]
    /\ UNCHANGED <<meta, rq, enq, worker, points, temp_dir, hist, lastRead,
                   sawTerminal, req, ttl>>

\* vector_db.py:290-305  client.delete, then `return count_before`.
DeleteRemove(v, up) ==
    /\ deletion[v].pc = "counted"
    /\ points' = IF up THEN delete(points, v) ELSE points
    /\ deletion' = [deletion EXCEPT ![v] =
          CallEnded(@, [outcome |-> IF up THEN "returned" ELSE "VectorDBError",
                     returned |-> IF up THEN deletion[v].count_before ELSE 0,
                     removed |-> IF up THEN count(points, v) ELSE 0,
                     left |-> points',
                     quiet |-> deletion[v].quiet /\ ~deletion[v].indexed])]
    /\ UNCHANGED <<meta, rq, enq, worker, temp_dir, hist, lastRead,
                   sawTerminal, req, ttl>>

(* --------------------------- process_video ----------------------------- *)
Called(v, call) == [hist[v] EXCEPT !.calls = @ \cup {call}]
Faulted(v, call) == [hist[v] EXCEPT !.calls = @ \cup {call}, !.faults = @ \cup {call}]

\* NextFrame with the loop bound off by one: the last frame is never visited.
NextFrame_SkipsLast(w) ==
    IF w.i + 1 < w.total_frames
    THEN [w EXCEPT !.i = @ + 1, !.pc = "get_image_embedding"]
    ELSE [w EXCEPT !.pc = "audio"]

\* NextFrame going back to frame extraction once the list is exhausted.
NextFrame_ReentersExtraction(w) ==
    IF w.i < w.total_frames
    THEN [w EXCEPT !.i = @ + 1, !.pc = "get_image_embedding"]
    ELSE [w EXCEPT !.pc = "extract_frames"]

\* The next iteration of `for timestamp, frame_path in frames`, or the
\* statement after the loop.
NextFrame(w) ==
    IF w.i < w.total_frames
    THEN [w EXCEPT !.i = @ + 1, !.pc = "get_image_embedding"]
    ELSE [w EXCEPT !.pc = "audio"]

\* The next iteration of `for segment in segments`, or the cleanup step.
NextSegment(w) ==
    IF w.j < w.segments
    THEN [w EXCEPT !.j = @ + 1, !.pc = "get_text_embedding"]
    ELSE [w EXCEPT !.pc = "cleanup"]

\* An exception that reaches `except Exception as e` (worker.py:155).
Raise(w, msg) == [w EXCEPT !.pc = "except", !.e = msg]

\* worker.py:43-48  temp_dir.mkdir; update_job_progress(video_id, 0.05)
Start(v) ==
    /\ worker[v].pc = "start"
    /\ temp_dir' = [temp_dir EXCEPT ![v] = TRUE]
    /\ meta' = [meta EXCEPT ![v] =
                  update_job_progress(meta[v], Frac(1, 20), 0, 0, "processing")]
    /\ worker' = [worker EXCEPT ![v].pc = "validate_video"]
    /\ ttl' = [ttl EXCEPT ![v] = _set_job_metadata(@)]
    /\ UNCHANGED <<rq, enq, points, hist, lastRead, sawTerminal, req, deletion>>

\* worker.py:52-53
ValidateOk(v, has_audio) ==
    /\ worker[v].pc = "validate_video"
    /\ meta' = [meta EXCEPT ![v] =
                  update_job_progress(meta[v], Frac(1, 10), 0, 0, "processing")]
    /\ worker' = [worker EXCEPT ![v].pc = "extract_frames",
                                ![v].has_audio = has_audio]
    /\ hist' = [hist EXCEPT ![v] = Called(v, "validate_video")]
    /\ ttl' = [ttl EXCEPT ![v] = _set_job_metadata(@)]
    /\ UNCHANGED <<rq, enq, points, temp_dir, lastRead, sawTerminal, req,
                   deletion>>

\* video_processor.py:73-131 raises VideoProcessingError
ValidateFail(v) ==
    /\ worker[v].pc = "validate_video"
    /\ worker' = [worker EXCEPT ![v] = Raise(@, "Video file not found")]
    /\ hist' = [hist EXCEPT ![v] = Faulted(v, "validate_video")]
    /\ UNCHANGED <<meta, rq, enq, points, temp_dir, lastRead, sawTerminal,
                   req, deletion, ttl>>

\* worker.py:57-66
ExtractOk(v, n) ==
    /\ worker[v].pc = "extract_frames"
    /\ meta' = [meta EXCEPT ![v] =
                  update_job_progress(meta[v], Frac(1, 5), 0, n, "processing")]
    /\ worker' = [worker EXCEPT ![v] =
                  NextFrame([@ EXCEPT !.total_frames = n, !.i = 0,
                                      !.frames_indexed = 0])]
    /\ hist' = [hist EXCEPT ![v] = Called(v, "extract_frames")]
    /\ ttl' = [ttl EXCEPT ![v] = _set_job_metadata(@)]
    /\ UNCHANGED <<rq, enq, points, temp_dir, lastRead, sawTerminal, req,
                   deletion>>

\* video_processor.py:193-194
ExtractFail(v) ==
    /\ worker[v].pc = "extract_frames"
    /\ worker' = [worker EXCEPT ![v] = Raise(@, "Frame extraction failed")]
    /\ hist' = [hist EXCEPT ![v] = Faulted(v, "extract_frames")]
    /\ UNCHANGED <<meta, rq, enq, points, temp_dir, lastRead, sawTerminal,
                   req, deletion, ttl>>

\* worker.py:75
EmbedOk(v) ==
    /\ worker[v].pc = "get_image_embedding"
    /\ worker' = [worker EXCEPT ![v].pc = "generate_thumbnail"]
    /\ hist' = [hist EXCEPT ![v] = Called(v, "get_image_embedding")]
    /\ UNCHANGED <<meta, rq, enq, points, temp_dir, lastRead, sawTerminal,
                   req, deletion, ttl>>

\* The HTTP request fails (httpx.HTTPStatusError); ai_service.py:61-63
\* raises AIServiceError; worker.py:102-104 continues.
EmbedFail(v) ==
    /\ worker[v].pc = "get_image_embedding"
    /\ worker' = [worker EXCEPT ![v] = NextFrame(@)]
    /\ hist' = [hist EXCEPT ![v] =
                  [Faulted(v, "get_image_embedding") EXCEPT
                      !.embed_failed = @ + 1,
                      !.attempts = retry("httpx.HTTPStatusError", 1).attempts]]
    /\ UNCHANGED <<meta, rq, enq, points, temp_dir, lastRead, sawTerminal,
                   req, deletion, ttl>>

\* worker.py:78-84
ThumbOk(v) ==
    /\ worker[v].pc = "generate_thumbnail"
    /\ worker' = [worker EXCEPT ![v].pc = "index_frame"]
    /\ hist' = [hist EXCEPT ![v] = Called(v, "generate_thumbnail")]
    /\ UNCHANGED <<meta, rq, enq, points, temp_dir, lastRead, sawTerminal,
                   req, deletion, ttl>>

\* video_processor.py:290-291 raises VideoProcessingError, which
\* `except (AIServiceError, VectorDBError)` at worker.py:102 does not catch.
ThumbFail(v) ==
    /\ worker[v].pc = "generate_thumbnail"
    /\ worker' = [worker EXCEPT ![v] = Raise(@, "Thumbnail generation failed")]
    /\ hist' = [hist EXCEPT ![v] = Faulted(v, "generate_thumbnail")]
    /\ UNCHANGED <<meta, rq, enq, points, temp_dir, lastRead, sawTerminal,
                   req, deletion, ttl>>

\* The progress written after a frame was indexed (worker.py:95).
FrameProgress(frames_indexed, total_frames) ==
    Frac(1, 5) + ((PScale \div 2) * frames_indexed) \div total_frames

\* index_frame storing every point under one and the same video_id.
index_frame_SharedVideoId(collection, video_id, timestamp, run) ==
    collection \cup {[video_id |-> "a", type |-> "visual",
                      timestamp |-> timestamp, run |-> run]}

\* vector_db.py:110-131  upsert of one point under a fresh uuid4; the
\* execution that creates the point stands for the uuid.
index_frame(collection, video_id, timestamp, run) ==
    collection \cup {[video_id |-> video_id, type |-> "visual",
                      timestamp |-> timestamp, run |-> run]}

\* worker.py:87-100  index_frame, frames_indexed += 1, update_job_progress
IndexOk(v) ==
    /\ worker[v].pc = "index_frame"
    /\ points' = index_frame(points, v, worker[v].i, hist[v].runs)
    /\ meta' = [meta EXCEPT ![v] =
                  update_job_progress(meta[v],
                      FrameProgress(worker[v].frames_indexed + 1, worker[v].total_frames),
                      worker[v].frames_indexed + 1, worker[v].total_frames,
                      "processing")]
    /\ worker' = [worker EXCEPT ![v] =
                  NextFrame([@ EXCEPT !.frames_indexed = @ + 1])]
    /\ hist' = [hist EXCEPT ![v] = Called(v, "index_frame")]
    /\ deletion' = [deletion EXCEPT ![v].indexed = TRUE]
    /\ ttl' = [ttl EXCEPT ![v] = _set_job_metadata(@)]
    /\ UNCHANGED <<rq, enq, temp_dir, lastRead, sawTerminal, req>>

\* vector_db.py:132-133 raises VectorDBError; worker.py:102-104 continues.
IndexFail(v) ==
    /\ worker[v].pc = "index_frame"
    /\ worker' = [worker EXCEPT ![v] = NextFrame(@)]
    /\ hist' = [hist EXCEPT ![v] = Faulted(v, "index_frame")]
    /\ UNCHANGED <<meta, rq, enq, points, temp_dir, lastRead, sawTerminal,
                   req, deletion, ttl>>

\* worker.py:109-111 and 141-142  `if metadata.get("has_audio", False)`
AudioGate(v) ==
    /\ worker[v].pc = "audio"
    /\ IF worker[v].has_audio
       THEN /\ meta' = [meta EXCEPT ![v] =
                  update_job_progress(meta[v], Frac(3, 4), 0, 0, "processing")]
            /\ ttl' = [ttl EXCEPT ![v] = _set_job_metadata(@)]
            /\ worker' = [worker EXCEPT ![v].pc = "extract_audio"]
       ELSE /\ worker' = [worker EXCEPT ![v].pc = "cleanup"]
            /\ UNCHANGED <<meta, ttl>>
    /\ UNCHANGED <<rq, enq, points, temp_dir, hist, lastRead, sawTerminal,
                   req, deletion>>

\* worker.py:114-119, audio_path returned
ExtractAudioOk(v) ==
    /\ worker[v].pc = "extract_audio"
    /\ worker' = [worker EXCEPT ![v].pc = "transcribe_audio"]
    /\ hist' = [hist EXCEPT ![v] = Called(v, "extract_audio")]
    /\ UNCHANGED <<meta, rq, enq, points, temp_dir, lastRead, sawTerminal,
                   req, deletion, ttl>>

\* video_processor.py:243-251 returns None: `if audio_path` is false.
ExtractAudioNone(v) ==
    /\ worker[v].pc = "extract_audio"
    /\ worker' = [worker EXCEPT ![v].pc = "cleanup"]
    /\ hist' = [hist EXCEPT ![v] = Called(v, "extract_audio")]
    /\ UNCHANGED <<meta, rq, enq, points, temp_dir, lastRead, sawTerminal,
                   req, deletion, ttl>>

\* The audio stage without its except clause: the exception leaves the stage.
AudioExcept_CatchesNothing(w, exc) == Raise(w, exc)

\* worker.py:139-140  `except (VideoProcessingError, AIServiceError)` around
\* the audio stage: the failure is logged and the stage is left.
AudioExcept(w, exc) ==
    IF exc \in {"VideoProcessingError", "AIServiceError"}
    THEN [w EXCEPT !.pc = "cleanup"]
    ELSE Raise(w, exc)

\* video_processor.py:246 raises VideoProcessingError; worker.py:139 logs.
ExtractAudioFail(v) ==
    /\ worker[v].pc = "extract_audio"
    /\ worker' = [worker EXCEPT ![v] = AudioExcept(@, "VideoProcessingError")]
    /\ hist' = [hist EXCEPT ![v] = Faulted(v, "extract_audio")]
    /\ UNCHANGED <<meta, rq, enq, points, temp_dir, lastRead, sawTerminal,
                   req, deletion, ttl>>

\* worker.py:121-125
TranscribeOk(v, n) ==
    /\ worker[v].pc = "transcribe_audio"
    /\ worker' = [worker EXCEPT ![v] = NextSegment([@ EXCEPT !.segments = n, !.j = 0])]
    /\ hist' = [hist EXCEPT ![v] = Called(v, "transcribe_audio")]
    /\ UNCHANGED <<meta, rq, enq, points, temp_dir, lastRead, sawTerminal,
                   req, deletion, ttl>>

\* ai_service.py:229-231 raises AIServiceError; worker.py:139 logs.
TranscribeFail(v) ==
    /\ worker[v].pc = "transcribe_audio"
    /\ worker' = [worker EXCEPT ![v] =
          AudioExcept(@, retry("httpx.HTTPStatusError", 1).raised)]
    /\ hist' = [hist EXCEPT ![v] =
          [Faulted(v, "transcribe_audio") EXCEPT
              !.attempts = retry("httpx.HTTPStatusError", 1).attempts]]
    /\ UNCHANGED <<meta, rq, enq, points, temp_dir, lastRead, sawTerminal,
                   req, deletion, ttl>>

\* worker.py:127
SegEmbedOk(v) ==
    /\ worker[v].pc = "get_text_embedding"
    /\ worker' = [worker EXCEPT ![v].pc = "index_transcript"]
    /\ hist' = [hist EXCEPT ![v] = Called(v, "get_text_embedding")]
    /\ UNCHANGED <<meta, rq, enq, points, temp_dir, lastRead, sawTerminal,
                   req, deletion, ttl>>

\* ai_service.py:110-111, 132-134 raise AIServiceError; worker.py:135-137
SegEmbedFail(v) ==
    /\ worker[v].pc = "get_text_embedding"
    /\ worker' = [worker EXCEPT ![v] = NextSegment(@)]
    /\ hist' = [hist EXCEPT ![v] =
          [Faulted(v, "get_text_embedding") EXCEPT
              !.attempts = retry("httpx.HTTPStatusError", 1).attempts]]
    /\ UNCHANGED <<meta, rq, enq, points, temp_dir, lastRead, sawTerminal,
                   req, deletion, ttl>>

\* worker.py:128-134
SegIndexOk(v) ==
    /\ worker[v].pc = "index_transcript"
    /\ points' = points \cup {[video_id |-> v, type |-> "audio",
                               timestamp |-> worker[v].j, run |-> hist[v].runs]}
    /\ worker' = [worker EXCEPT ![v] = NextSegment(@)]
    /\ hist' = [hist EXCEPT ![v] = Called(v, "index_transcript")]
    /\ deletion' = [deletion EXCEPT ![v].indexed = TRUE]
    /\ UNCHANGED <<meta, rq, enq, temp_dir, lastRead, sawTerminal, req, ttl>>

\* vector_db.py:179-180 raises VectorDBError; worker.py:135-137 continues.
SegIndexFail(v) ==
    /\ worker[v].pc = "index_transcript"
    /\ worker' = [worker EXCEPT ![v] = NextSegment(@)]
    /\ hist' = [hist EXCEPT ![v] = Faulted(v, "index_transcript")]
    /\ UNCHANGED <<meta, rq, enq, points, temp_dir, lastRead, sawTerminal,
                   req, deletion, ttl>>

\* shutil.rmtree(temp_dir, ignore_errors=True) (worker.py:147, 160): a
\* removal the file system refuses is ignored and the directory stays.
rmtree(exists, removed) == exists /\ ~removed

\* worker.py:146-147  cleanup_temp_files, then rmtree(ignore_errors=True)
CleanupOk(v, removed) ==
    /\ worker[v].pc = "cleanup"
    /\ temp_dir' = [temp_dir EXCEPT ![v] = rmtree(@, removed)]
    /\ worker' = [worker EXCEPT ![v].pc = "get_video_stats"]
    /\ hist' = [hist EXCEPT ![v] = Called(v, "cleanup_temp_files")]
    /\ UNCHANGED <<meta, rq, enq, points, lastRead, sawTerminal, req, deletion,
                   ttl>>

\* video_processor.py:299-301  file.unlink() raises OSError
CleanupFail(v) ==
    /\ worker[v].pc = "cleanup"
    /\ worker' = [worker EXCEPT ![v] = Raise(@, "Permission denied")]
    /\ hist' = [hist EXCEPT ![v] = Faulted(v, "cleanup_temp_files")]
    /\ UNCHANGED <<meta, rq, enq, points, temp_dir, lastRead, sawTerminal,
                   req, deletion, ttl>>

\* worker.py:150-151
StatsOk(v) ==
    /\ worker[v].pc = "get_video_stats"
    /\ worker' = [worker EXCEPT ![v].pc = "mark_job_complete"]
    /\ hist' = [hist EXCEPT ![v] = Called(v, "get_video_stats")]
    /\ UNCHANGED <<meta, rq, enq, points, temp_dir, lastRead, sawTerminal,
                   req, deletion, ttl>>

\* vector_db.py:344-345 raises VectorDBError
StatsFail(v) ==
    /\ worker[v].pc = "get_video_stats"
    /\ worker' = [worker EXCEPT ![v] = Raise(@, "Failed to get video stats")]
    /\ hist' = [hist EXCEPT ![v] = Faulted(v, "get_video_stats")]
    /\ UNCHANGED <<meta, rq, enq, points, temp_dir, lastRead, sawTerminal,
                   req, deletion, ttl>>

\* worker.py:153  job_queue.mark_job_complete(video_id); the function returns.
MarkComplete(v) ==
    /\ worker[v].pc = "mark_job_complete"
    /\ meta' = [meta EXCEPT ![v] = mark_job_complete(meta[v])]
    /\ worker' = [worker EXCEPT ![v].pc = "returned"]
    /\ hist' = [hist EXCEPT ![v].outcome = "completed"]
    /\ ttl' = [ttl EXCEPT ![v] = _set_job_metadata(@)]
    /\ UNCHANGED <<rq, enq, points, temp_dir, lastRead, sawTerminal, req,
                   deletion>>

\* The except handler rolling back the points the execution had indexed.
MarkFailed_RollsBack(v, removed) ==
    /\ worker[v].pc = "except"
    /\ meta' = [meta EXCEPT ![v] = mark_job_failed(meta[v], worker[v].e)]
    /\ temp_dir' = [temp_dir EXCEPT ![v] = rmtree(@, removed)]
    /\ points' = delete(points, v)
    /\ worker' = [worker EXCEPT ![v].pc = "raised"]
    /\ hist' = [hist EXCEPT ![v].outcome = "failed"]
    /\ ttl' = [ttl EXCEPT ![v] = _set_job_metadata(@)]
    /\ UNCHANGED <<rq, enq, lastRead, sawTerminal, req, deletion>>

\* worker.py:155-161  mark_job_failed(video_id, str(e)); rmtree; raise
MarkFailed(v, removed) ==
    /\ worker[v].pc = "except"
    /\ meta' = [meta EXCEPT ![v] = mark_job_failed(meta[v], worker[v].e)]
    /\ temp_dir' = [temp_dir EXCEPT ![v] = rmtree(@, removed)]
    /\ worker' = [worker EXCEPT ![v].pc = "raised"]
    /\ hist' = [hist EXCEPT ![v].outcome = "failed"]
    /\ ttl' = [ttl EXCEPT ![v] = _set_job_metadata(@)]
    /\ UNCHANGED <<rq, enq, points, lastRead, sawTerminal, req, deletion>>

\* Where an exception raised inside a call is wrapped by the callee's own
\* `except Exception` (ai_service.py:61, 132, 229; vector_db.py:132, 179)
\* and then handled by the runner as that item's or stage's failure.
SwallowedAt(w) ==
    CASE w.pc \in {"get_image_embedding", "index_frame"} -> NextFrame(w)
      [] w.pc = "transcribe_audio" -> [w EXCEPT !.pc = "cleanup"]
      [] w.pc \in {"get_text_embedding", "index_transcript"} -> NextSegment(w)
      [] OTHER -> Raise(w, TimeoutMsg)

\* job_timeout='1h' (job_queue.py:74): RQ raises JobTimeoutException, an
\* Exception, once, at whatever statement the work-horse is executing.
Timeout(v) ==
    /\ worker[v].pc \notin {"idle", "except", "returned", "raised", "killed"}
    /\ ~hist[v].timed_out
    /\ worker' = [worker EXCEPT ![v] = SwallowedAt(@)]
    /\ hist' = [hist EXCEPT ![v].timed_out = TRUE]
    /\ UNCHANGED <<meta, rq, enq, points, temp_dir, lastRead, sawTerminal,
                   req, deletion, ttl>>

Runner(v) ==
    \/ Start(v)
    \/ \E has_audio \in BOOLEAN : ValidateOk(v, has_audio)
    \/ ValidateFail(v)
    \/ \E n \in 0..MaxFrames : ExtractOk(v, n)
    \/ ExtractFail(v)
    \/ EmbedOk(v)
    \/ EmbedFail(v)
    \/ ThumbOk(v)
    \/ ThumbFail(v)
    \/ IndexOk(v)
    \/ IndexFail(v)
    \/ AudioGate(v)
    \/ ExtractAudioOk(v)
    \/ ExtractAudioNone(v)
    \/ ExtractAudioFail(v)
    \/ \E n \in 0..MaxSegments : TranscribeOk(v, n)
    \/ TranscribeFail(v)
    \/ SegEmbedOk(v)
    \/ SegEmbedFail(v)
    \/ SegIndexOk(v)
    \/ SegIndexFail(v)
    \/ \E removed \in BOOLEAN : CleanupOk(v, removed)
    \/ CleanupFail(v)
    \/ StatsOk(v)
    \/ StatsFail(v)
    \/ MarkComplete(v)
    \/ \E removed \in BOOLEAN : MarkFailed(v, removed)

Backend(v) ==
    \/ RQStart(v)
    \/ RQFinish(v)
    \/ RQFail(v)
    \/ RQReap(v)

Next ==
    \E v \in Videos :
        \/ EnqueueSubmit(v)
        \/ EnqueueStore(v)
        \/ GetStatus(v)
        \/ Backend(v)
        \/ Runner(v)
        \/ Timeout(v)
        \/ Crash(v)
        \/ HandleExpire(v)

\* Every job is executed once; the web process enqueues and polls.
Spec == Init /\ [][Next]_vars

\* The worker keeps running whatever it started, RQ records every outcome,
\* enqueue_video_processing runs to its end and the client keeps polling.
FairSpec ==
    /\ Spec
    /\ \A v \in Videos : WF_vars(Backend(v) \/ Runner(v))
    /\ \A v \in Videos : WF_vars(EnqueueStore(v))
    /\ \A v \in Videos : WF_vars(GetStatus(v))

(* ------------- get_job_status as a function of its inputs -------------- *)
StoredRecords ==
    [job_id : {None} \cup {JobId(v) : v \in Videos},
     video_id : Videos,
     status : {"pending", "processing", "completed", "failed"},
     progress : {0, Frac(1, 2), Frac(1, 1)},
     frames_processed : {0},
     total_frames : {0},
     created_at : {"utcnow"},
     error : {None, "Frame extraction failed"}]

Handles ==
    [status : {"none", "queued", "started", "finished"}, exc_info : {None}]
    \cup [status : {"failed"}, exc_info : {None, HorseKilled}]

InitStatus ==
    /\ meta \in [Videos -> StoredRecords \cup {NoRecord}]
    /\ rq \in [Videos -> Handles]
    /\ enq = [v \in Videos |-> "stored"]
    /\ worker = [v \in Videos |-> IdleWorker]
    /\ points = {}
    /\ temp_dir = [v \in Videos |-> FALSE]
    /\ hist = [v \in Videos |-> NoHist]
    /\ lastRead = [v \in Videos |-> Unread]
    /\ sawTerminal = [v \in Videos |-> FALSE]
    /\ req = NoSearch
    /\ deletion = [v \in Videos |-> NoDeletion]
    /\ ttl = [v \in Videos |-> IF meta[v] = NoRecord THEN NoKey
                                ELSE _set_job_metadata(NoKey)]

NextStatus == \E v \in Videos : GetStatus(v)

SpecStatus == InitStatus /\ [][NextStatus]_vars

(* ------------------------------ claims --------------------------------- *)
IsJob(r) == r # Unread /\ r # NoRecord
Ended(v) == hist[v].outcome \in {"completed", "failed"}
PointsOf(v, type) == {p \in points : p.video_id = v /\ p.type = type}
RunnerStep(v) == worker'[v].pc # worker[v].pc /\ worker[v].pc # "idle"

\* C1: for every video, as long as no read has returned a terminal status,
\* each read of get_job_status returns a progress at least as large as the
\* read before it.
C1_ProgressNonDecreasing ==
    [][\A v \in Videos :
        (IsJob(lastRead[v]) /\ IsJob(lastRead'[v]) /\ ~sawTerminal[v])
            => lastRead'[v].progress >= lastRead[v].progress]_vars

\* C2: every record returned by get_job_status has progress 1.0 exactly
\* when its status is completed and an error exactly when it is failed.
C2_StatusConsistent ==
    \A v \in Videos :
        IsJob(lastRead[v]) =>
            /\ (lastRead[v].progress = Frac(1, 1)) <=> (lastRead[v].status = "completed")
            /\ (lastRead[v].error # None) <=> (lastRead[v].status = "failed")

\* C3: once the record's total_frames is non-zero, no later step of the
\* runner (audio stage, mark_job_complete, mark_job_failed) changes it.
C3_TotalFramesStable ==
    [][\A v \in Videos :
        (RunnerStep(v) /\ meta[v] # NoRecord /\ meta[v].total_frames # 0)
            => meta'[v].total_frames = meta[v].total_frames]_vars

\* C4: an execution of process_video that was not timed out ends with
\* mark_job_failed exactly when validate_video or extract_frames failed,
\* and with mark_job_complete otherwise.
C4_FailedIffFatalStage ==
    \A v \in Videos :
        (Ended(v) /\ ~hist[v].timed_out) =>
            ((hist[v].outcome = "failed")
                <=> (hist[v].faults \cap {"validate_video", "extract_frames"} # {}))

\* C5: an execution in which only per-frame steps failed (image embedding,
\* thumbnail, upsert) ends with the job completed.
C5_FrameFailureSkipped ==
    \A v \in Videos :
        (/\ Ended(v) /\ ~hist[v].timed_out
         /\ hist[v].faults # {}
         /\ hist[v].faults \subseteq
                {"get_image_embedding", "generate_thumbnail", "index_frame"})
            => hist[v].outcome = "completed"

\* C6: when image embedding failed for k of the N frames and nothing else
\* failed, the job is completed, the record reports frames_processed = N
\* and the store holds N - k visual points of the video.
C6_AttemptedFramesReported ==
    \A v \in Videos :
        (/\ hist[v].outcome = "completed" /\ ~hist[v].timed_out
         /\ hist[v].faults \subseteq {"get_image_embedding"})
            => /\ meta[v].frames_processed = worker[v].total_frames
               /\ Cardinality(PointsOf(v, "visual"))
                    = worker[v].total_frames - hist[v].embed_failed

\* C7: the execution of a video without audio in which no call failed ends
\* with the record completed at progress 1.0, one visual point per
\* extracted frame, no audio point, and extract_audio and transcribe_audio
\* never called.
C7_SilentVideoIndexed ==
    [][\A v \in Videos :
        (/\ ~Ended(v)
         /\ hist'[v].outcome \in {"completed", "failed"}
         /\ ~worker'[v].has_audio
         /\ hist'[v].faults = {}
         /\ ~hist'[v].timed_out)
            => /\ meta'[v].status = "completed"
               /\ meta'[v].progress = Frac(1, 1)
               /\ Cardinality({p \in points' : p.video_id = v /\ p.type = "visual"})
                    = worker'[v].total_frames
               /\ {p \in points' : p.video_id = v /\ p.type = "audio"} = {}
               /\ hist'[v].calls \cap {"extract_audio", "transcribe_audio"} = {}]_vars

C7_Witness ==
    \E v \in Videos :
        /\ hist[v].outcome = "completed"
        /\ ~worker[v].has_audio /\ hist[v].faults = {} /\ ~hist[v].timed_out
        /\ worker[v].total_frames >= 2
        /\ Cardinality(PointsOf(v, "visual")) = worker[v].total_frames
        /\ meta[v].status = "completed"

\* C8: when the stored record has a job_id and the handle can be fetched,
\* a read of a record stored as processing returns failed with an error if
\* the handle is failed, and completed with progress 1.0 if it is finished.
C8_Reconciled ==
    \A v \in Videos :
        (/\ IsJob(lastRead[v])
         /\ meta[v].job_id # None
         /\ meta[v].status = "processing")
            => /\ rq[v].status = "failed"
                    => lastRead[v].status = "failed" /\ lastRead[v].error # None
               /\ rq[v].status = "finished"
                    => lastRead[v].status = "completed"
                       /\ lastRead[v].progress = Frac(1, 1)

C8_Witness ==
    \E v \in Videos :
        /\ meta[v] # NoRecord
        /\ meta[v].job_id # None
        /\ meta[v].status = "processing"
        /\ meta[v].progress < Frac(1, 1)
        /\ rq[v].status = "finished"
        /\ IsJob(lastRead[v])
        /\ lastRead[v].status = "completed"
        /\ lastRead[v].progress = Frac(1, 1)

\* C9: once a video is enqueued, some read of get_job_status eventually
\* returns a terminal status.
C9_EventuallyTerminal ==
    \A v \in Videos :
        (enq[v] = "stored") ~> sawTerminal[v]

\* C10: once enqueue_video_processing has returned and an execution that
\* hit the job timeout has ended and RQ has recorded its outcome,
\* get_job_status returns failed.
C10_TimeoutIsFailed ==
    \A v \in Videos :
        (enq[v] = "stored" /\ hist[v].timed_out /\ worker[v].pc = "idle")
            => StatusOf(v).status = "failed"

(* ---------------------- at-least-once execution ------------------------ *)
NextAtLeastOnce ==
    \E v \in Videos :
        \/ EnqueueSubmit(v)
        \/ EnqueueStore(v)
        \/ Backend(v)
        \/ Runner(v)
        \/ Timeout(v)
        \/ Crash(v)
        \/ HandleExpire(v)
        \/ Requeue(v)

\* The backend may run a failed job again; reads are the state function
\* StatusOf.
SpecAtLeastOnce == Init /\ [][NextAtLeastOnce]_vars

(* ------------------------------ enqueue -------------------------------- *)
\* C11: a read of a video that has no stored record, whatever the Queue
\* Backend holds for its job id, returns None and the status endpoint
\* answers 404; it never returns a record.
C11_NoRecordIsNotFound ==
    [][\A v \in Videos :
          (lastRead'[v] # lastRead[v] /\ meta[v] = NoRecord)
              => /\ lastRead'[v] = NoRecord
                 /\ StatusEndpoint(v, lastRead'[v]).code = 404]_vars

C11_Witness ==
    \E v \in Videos :
        /\ meta[v] = NoRecord
        /\ rq[v].status = "finished"
        /\ lastRead[v] = NoRecord
        /\ StatusEndpoint(v, lastRead[v]).code = 404

\* The executions submitted so far under the job id of v: those a worker
\* has started and the one still waiting in the queue.
Submitted(v) == hist[v].runs + (IF rq[v].status = "queued" THEN 1 ELSE 0)

\* C12: when enqueue_video_processing completes, the stored record is
\* pending with progress 0, frames processed 0, total frames 0 and no
\* error; the job id it returns is "video_" + video id, differs from the
\* video id, and is the key under which exactly one execution was submitted.
C12_EnqueueStoresPending ==
    [][\A v \in Videos :
          (enq[v] = "submitted" /\ enq'[v] = "stored")
              => /\ meta'[v].status = "pending"
                 /\ meta'[v].progress = 0
                 /\ meta'[v].frames_processed = 0
                 /\ meta'[v].total_frames = 0
                 /\ meta'[v].error = None
                 /\ meta'[v].job_id = JobId(v)
                 /\ meta'[v].job_id # v
                 /\ Submitted(v)' = 1]_vars

C12_Witness ==
    \E v \in Videos :
        /\ enq[v] = "stored"
        /\ meta[v] = InitialMetadata(v)
        /\ meta[v].job_id = "video_a"
        /\ rq[v].status = "queued"
        /\ Submitted(v) = 1

(* ----------------------- unreachable Queue Backend --------------------- *)
NextUnreachable ==
    \E v \in Videos :
        \/ EnqueueSubmit(v)
        \/ EnqueueStore(v)
        \/ EnqueueSubmitFail(v)
        \/ EnqueueStoreFail(v)
        \/ EnqueueExpireFail(v)
        \/ Backend(v)
        \/ Runner(v)
        \/ Crash(v)

\* The connection to Redis may be lost before or during an enqueue.
SpecUnreachable == Init /\ [][NextUnreachable]_vars

\* C13: when enqueue_video_processing raises because Redis is unreachable,
\* it has neither created nor modified the record of the video and no
\* execution is left queued for it.
C13_FailedEnqueueLeavesNothing ==
    [][\A v \in Videos :
          (enq[v] # "failed" /\ enq'[v] = "failed")
              => /\ meta'[v] = meta[v]
                 /\ rq'[v].status # "queued"]_vars

(* ------------------------------ re-enqueue ----------------------------- *)
NextReenqueue ==
    \E v \in Videos :
        \/ EnqueueSubmit(v)
        \/ EnqueueStore(v)
        \/ EnqueueAgainSubmit(v)
        \/ EnqueueAgainStore(v)
        \/ RQStartDuplicate(v)
        \/ Backend(v)
        \/ Runner(v)
        \/ Crash(v)

\* enqueue_video_processing may be called a second time for the same video.
SpecReenqueue == Init /\ [][NextReenqueue]_vars

\* C14: a second enqueue_video_processing for a video whose job is not yet
\* terminal returns a job id different from the one in the stored record
\* and leaves that record as it was (the code has no path that rejects).
C14_ReenqueueDistinguishable ==
    [][\A v \in Videos :
          (/\ enq[v] = "resubmitted" /\ enq'[v] = "restored"
           /\ meta[v] # NoRecord
           /\ ~Terminal(meta[v].status))
              => /\ JobId(v) # meta[v].job_id
                 /\ meta'[v] = meta[v]]_vars

(* ------------------------------- search -------------------------------- *)
MaxHits == 3
MaxTopK == 2
MaxCrowd == 5

\* Hits that differ in when they occur: 3.0 s, 5.0 s, 10.4 s and 11.2 s.
TimedHits ==
    [video_id : {"a"}, type : {"visual", "audio"},
     timestamp : {30, 50, 104, 112}, score : {20}]

\* Hits that differ in whose they are and how well they score.
ScoredHits ==
    [video_id : {"a", "b"}, type : {"visual"},
     timestamp : {104, 112}, score : {10, 20}]

\* The collections Qdrant can rank for a query: best score first.
RankedStores(hits) ==
    {s \in UNION {[1..n -> hits] : n \in 0..MaxHits} :
        \A i \in 1..(Len(s) - 1) : s[i].score >= s[i + 1].score}

\* Collections in which one 2-second window is crowded: frames and
\* transcript segments at 3.0 s and 5.0 s (both in window 4) and at 10.4 s,
\* no point twice, all scoring alike.
CrowdedStores ==
    {s \in [1..MaxCrowd ->
                [video_id : {"a"}, type : {"visual", "audio"},
                 timestamp : {30, 50, 104}, score : {20}]] :
        \A i, k \in DOMAIN s : i # k => s[i] # s[k]}

InitSearch ==
    /\ meta = [v \in Videos |-> NoRecord]
    /\ rq = [v \in Videos |-> [status |-> "none", exc_info |-> None]]
    /\ enq = [v \in Videos |-> "none"]
    /\ worker = [v \in Videos |-> IdleWorker]
    /\ points = {}
    /\ temp_dir = [v \in Videos |-> FALSE]
    /\ hist = [v \in Videos |-> NoHist]
    /\ lastRead = [v \in Videos |-> Unread]
    /\ sawTerminal = [v \in Videos |-> FALSE]
    /\ req \in {[NoSearch EXCEPT !.store = s] :
                    s \in RankedStores(TimedHits) \cup RankedStores(ScoredHits)
                            \cup CrowdedStores}
    /\ deletion = [v \in Videos |-> NoDeletion]
    /\ ttl = [v \in Videos |-> IF meta[v] = NoRecord THEN NoKey
                                ELSE _set_job_metadata(NoKey)]

NextSearch ==
    \/ \E video_id \in {<<>>, <<"">>, <<"a">>, <<"b">>},
          result_type \in {<<>>, <<"visual">>, <<"audio">>},
          top_k \in 1..MaxTopK,
          min_score \in {<<>>, <<0>>, <<10>>},
          up \in BOOLEAN :
            Search(video_id, result_type, top_k, min_score, up)
    \/ \E video_id \in {"", "a", "b"},
          query \in {<<>>, <<" ">>, <<"c">>, <<" ", "c">>},
          top_k \in 0..MaxTopK,
          embedder_up \in BOOLEAN,
          qdrant_up \in BOOLEAN :
            SearchVideo(video_id, query, top_k, embedder_up, qdrant_up)
    \/ SearchDone

SpecSearch == InitSearch /\ [][NextSearch]_vars

\* A search that handed a result list to its caller.
Returned == req.outcome \in {"returned", "200"}
Key(hit) == window_key(hit.timestamp)
Timestamps(hits) == {hits[i].timestamp : i \in DOMAIN hits}
Prefix(hits, n) == SubSeq(hits, 1, IF Len(hits) < n THEN Len(hits) ELSE n)

\* C15 as stated: two candidates at 10.4 s and 11.2 s both get window key
\* 10 and only the first of them in candidate order is returned.
C15_SameBucket ==
    (/\ Returned
     /\ Len(req.candidates) = 2
     /\ Timestamps(req.candidates) = {104, 112})
        => /\ Key(req.candidates[1]) = 10
           /\ Key(req.candidates[2]) = 10
           /\ req.results = <<req.candidates[1]>>

\* C15: two candidates at 10.4 s and 11.2 s get the window keys 10 and 12,
\* so they are in different buckets and both are returned in candidate
\* order when top_k allows two; two candidates whose window keys are equal
\* (3.0 s and 5.0 s both have key 4) yield only the first.
C15_DifferentBuckets ==
    (Returned /\ Len(req.candidates) = 2)
        => /\ Timestamps(req.candidates) = {104, 112}
                => /\ \A i \in 1..2 :
                         Key(req.candidates[i])
                            = IF req.candidates[i].timestamp = 104
                              THEN 10 ELSE 12
                   /\ req.results = Prefix(req.candidates, req.args[1].top_k)
           /\ Key(req.candidates[1]) = Key(req.candidates[2])
                => req.results = <<req.candidates[1]>>

C15_Witness ==
    /\ Returned
    /\ Len(req.candidates) = 2
    /\ req.candidates[1].timestamp = 112
    /\ req.candidates[2].timestamp = 104
    /\ req.args[1].top_k = 2
    /\ req.results = req.candidates

\* C16: in a returned list no two hits have the same window key, and each
\* returned hit is the first candidate of its window in candidate order.
C16_OnePerBucket ==
    Returned
        => /\ \A i, j \in DOMAIN req.results :
                 i # j => Key(req.results[i]) # Key(req.results[j])
           /\ \A i \in DOMAIN req.results :
                 \E n \in DOMAIN req.candidates :
                    /\ req.candidates[n] = req.results[i]
                    /\ \A k \in 1..(n - 1) :
                          Key(req.candidates[k]) # Key(req.results[i])

C16_Witness ==
    /\ Returned
    /\ Len(req.candidates) = 3
    /\ Key(req.candidates[1]) = Key(req.candidates[2])
    /\ req.candidates[1] # req.candidates[2]
    /\ req.results = <<req.candidates[1], req.candidates[3]>>

\* D: the candidates that are the first of their window, in candidate order.
FirstOfBucket(C) ==
    LET keep == {i \in DOMAIN C :
                    \A k \in 1..(i - 1) : Key(C[k]) # Key(C[i])}
        nth(n) == CHOOSE i \in keep : Cardinality({k \in keep : k <= i}) = n
    IN  [n \in 1..Cardinality(keep) |-> C[nth(n)]]

\* C17: the returned list is the first min(top_k, |D|) elements of D, the
\* candidates that are first of their window: candidate order is kept, at
\* most top_k hits are returned, none that is not a candidate, and fewer
\* than top_k (or none) when D is short.
C17_PrefixOfDeduplicated ==
    Returned
        => req.results = Prefix(FirstOfBucket(req.candidates),
                                req.args[1].top_k)

C17_Witness ==
    /\ Returned
    /\ Len(req.candidates) = 3
    /\ Len(FirstOfBucket(req.candidates)) = 3
    /\ req.args[1].top_k = 2
    /\ req.results = <<req.candidates[1], req.candidates[2]>>

\* C18: for every video_id the request model accepts, the empty string
\* included, every hit in the response is a point of that video (which is
\* what a video_id condition in the query filter ensures).
C18_OnlyRequestedVideo ==
    (req.op = "search_video" /\ req.outcome = "200")
        => \A i \in DOMAIN req.results :
              req.results[i].video_id = req.args[1].video_id

\* C19: the score threshold sent to Qdrant is the caller's min_score when
\* one is given, 0.0 included, and min_search_score only when none is; no
\* returned hit scores below it.
C19_CallerFloor ==
    (req.op = "search" /\ req.sent # <<>>)
        => LET floor == IF req.args[1].min_score # <<>>
                        THEN req.args[1].min_score[1] ELSE min_search_score
           IN  /\ req.sent[1].score_threshold = floor
               /\ \A i \in DOMAIN req.results : req.results[i].score >= floor

\* C20: a search whose query is empty or only whitespace is answered with
\* a validation error (422) and calls neither the embedding service nor
\* Qdrant.
C20_EmptyQueryRejected ==
    (req.op = "search_video" /\ EmptyQuery(req.args[1].query))
        => req.outcome = "422" /\ req.calls = {}

(* ------------------------------- delete -------------------------------- *)
NextDelete ==
    \E v \in Videos :
        \/ EnqueueSubmit(v)
        \/ EnqueueStore(v)
        \/ Backend(v)
        \/ Runner(v)
        \/ Crash(v)
        \/ \E up \in BOOLEAN : DeleteCount(v, up)
        \/ \E up \in BOOLEAN : DeleteRemove(v, up)

\* A video may be deleted at any time, also while it is being indexed.
SpecDelete == Init /\ [][NextDelete]_vars

\* C21: of two successive calls of delete_video that both returned, with no
\* point of the video indexed from the start of the first to the end of the
\* second, the first returns the number of points it removed, the second
\* returns 0, and the collection after the second is the collection after
\* the first.  A call raises only when Qdrant does not answer.
C21_DeleteTwice ==
    \A v \in Videos :
        LET first == deletion[v].prev
            second == deletion[v].last
        IN  (/\ first.outcome = "returned"
             /\ second.outcome = "returned"
             /\ second.quiet)
                => /\ first.returned = first.removed
                   /\ second.returned = 0
                   /\ second.left = first.left

C21_Witness ==
    \E v \in Videos :
        /\ deletion[v].prev.outcome = "returned"
        /\ deletion[v].prev.returned = 2
        /\ deletion[v].last.outcome = "returned"
        /\ deletion[v].last.quiet
        /\ deletion[v].last.returned = 0

(* ------------------------------ clean-up ------------------------------- *)
\* C22: once an execution of process_video has made its terminal mark,
\* completed or failed, the directory temp_dir / video_id does not exist.
C22_WorkingDirectoryRemoved ==
    \A v \in Videos : Ended(v) => ~temp_dir[v]

\* C23: an execution in which validate_video and extract_frames succeeded
\* and cleanup_temp_files raised still ends completed, with no error in the
\* record it leaves.
C23_CleanupFailureIgnored ==
    \A v \in Videos :
        (/\ Ended(v)
         /\ "cleanup_temp_files" \in hist[v].faults
         /\ {"validate_video", "extract_frames"} \subseteq
                hist[v].calls \ hist[v].faults)
            => /\ hist[v].outcome = "completed"
               /\ worker[v].pc = "returned" => meta[v].error = None

\* The calls of the audio stages (worker.py:108-142).
AudioCalls ==
    {"extract_audio", "transcribe_audio", "get_text_embedding",
     "index_transcript"}

\* C24: an execution in which nothing failed outside the audio stages
\* (extract_audio failed or found no track, transcribe_audio failed, a
\* segment's embedding or upsert failed) ends completed with no error, and
\* every visual point it indexed is in the collection.
C24_AudioFailureSkipped ==
    \A v \in Videos :
        (Ended(v) /\ ~hist[v].timed_out /\ hist[v].faults \subseteq AudioCalls)
            => /\ hist[v].outcome = "completed"
               /\ meta[v].error = None
               /\ Cardinality(PointsOf(v, "visual")) = worker[v].frames_indexed

C24_Witness ==
    \E v \in Videos :
        /\ Ended(v)
        /\ hist[v].faults = {"transcribe_audio"}
        /\ hist[v].outcome = "completed"
        /\ meta[v].status = "completed"
        /\ Cardinality(PointsOf(v, "visual")) = MaxFrames

\* C25: when a call of the embedder or transcriber failed on a transient
\* HTTP error and the runner skipped the item or stage, the call had been
\* attempted stop_after_attempt times.
C25_RetriedBeforeSkipped ==
    \A v \in Videos :
        hist[v].attempts # 0 => hist[v].attempts = stop_after_attempt

\* C26: once an execution ended in mark_job_failed because validate_video
\* or extract_frames raised, and while the stored record is the failed one,
\* every read of get_job_status returns as error exactly the message the
\* runner passed to mark_job_failed.
C26_ErrorVerbatim ==
    [][\A v \in Videos :
        (/\ hist[v].outcome = "failed"
         /\ meta[v].status = "failed"
         /\ hist[v].faults \cap {"validate_video", "extract_frames"} # {}
         /\ lastRead'[v] # lastRead[v])
            => lastRead'[v].error = worker[v].e]_vars

\* The place of a statement of process_video in the order of the try body
\* (worker.py:46-153) and of the handler that follows it (worker.py:155):
\* the stage, then the item of the loop, then the call made for that item.
StageOf(pc) ==
    CASE pc = "start" -> 0
      [] pc = "validate_video" -> 1
      [] pc = "extract_frames" -> 2
      [] pc \in {"get_image_embedding", "generate_thumbnail", "index_frame"} -> 3
      [] pc = "audio" -> 4
      [] pc = "extract_audio" -> 5
      [] pc = "transcribe_audio" -> 6
      [] pc \in {"get_text_embedding", "index_transcript"} -> 7
      [] pc = "cleanup" -> 8
      [] pc = "get_video_stats" -> 9
      [] pc = "mark_job_complete" -> 10
      [] pc = "except" -> 11
      [] OTHER -> 12

ItemOf(w) ==
    CASE StageOf(w.pc) = 3 -> w.i
      [] StageOf(w.pc) = 7 -> w.j
      [] OTHER -> 0

CallOf(pc) ==
    CASE pc = "generate_thumbnail" -> 1
      [] pc = "index_frame" -> 2
      [] pc = "index_transcript" -> 1
      [] OTHER -> 0

\* w comes before x in the lexicographic order (stage, item, call).
Before(w, x) ==
    \/ StageOf(w.pc) < StageOf(x.pc)
    \/ /\ StageOf(w.pc) = StageOf(x.pc)
       /\ \/ ItemOf(w) < ItemOf(x)
          \/ ItemOf(w) = ItemOf(x) /\ CallOf(w.pc) < CallOf(x.pc)

InExecution(w) == w.pc \notin {"idle", "killed"}

C28_ProgressAfterEveryFrame ==
    [][\A v \in Videos :
        (/\ worker[v].pc \in {"get_image_embedding", "index_frame"}
         /\ worker'[v].pc \in {"get_image_embedding", "audio"}
         /\ worker'[v] # worker[v])
            => /\ meta'[v].progress
                    = FrameProgress(worker[v].i, worker[v].total_frames)
               /\ meta'[v].frames_processed = worker[v].i]_vars

\* C29: every record in the job store carries the job id and the created
\* timestamp that enqueue_video_processing writes: no write of the runner
\* creates a record without them.
C29_RecordsComplete ==
    \A v \in Videos :
        meta[v] # NoRecord
            => /\ meta[v].job_id # None
               /\ meta[v].video_id # None
               /\ meta[v].created_at # None

\* C30: the mark_job_failed(video_id, error) of process_video, on a stored
\* record, sets status to failed and error to the message, and leaves
\* progress, frames_processed, total_frames, job_id, video_id and
\* created_at as they were.
C30_MarkFailedFrame ==
    [][\A v \in Videos :
        (/\ worker[v].pc = "except" /\ worker'[v].pc = "raised"
         /\ meta[v] # NoRecord)
            => /\ meta'[v].status = "failed"
               /\ meta'[v].error = worker[v].e
               /\ meta'[v].progress = meta[v].progress
               /\ meta'[v].frames_processed = meta[v].frames_processed
               /\ meta'[v].total_frames = meta[v].total_frames
               /\ meta'[v].job_id = meta[v].job_id
               /\ meta'[v].video_id = meta[v].video_id
               /\ meta'[v].created_at = meta[v].created_at]_vars

C30_Witness ==
    \E v \in Videos :
        /\ worker[v].pc = "raised"
        /\ hist[v].faults = {"generate_thumbnail"}
        /\ meta[v].status = "failed"
        /\ meta[v].error = worker[v].e
        /\ meta[v].job_id = JobId(v)
        /\ meta[v].frames_processed = 1
        /\ meta[v].total_frames = MaxFrames
        /\ meta[v].progress = FrameProgress(1, MaxFrames)

(* ------------------- two jobs, two independent workers ------------------ *)
\* Two uploads with the distinct ids main.generate_video_id gave them.
TwoVideos == {"a", "b"}

\* Both enqueue_video_processing calls have returned: each job is queued
\* and has its initial record; no worker has started yet.
InitTwo ==
    /\ meta = [v \in TwoVideos |-> InitialMetadata(v)]
    /\ rq = [v \in TwoVideos |-> [status |-> "queued", exc_info |-> None]]
    /\ enq = [v \in TwoVideos |-> "stored"]
    /\ worker = [v \in TwoVideos |-> IdleWorker]
    /\ points = {}
    /\ temp_dir = [v \in TwoVideos |-> FALSE]
    /\ hist = [v \in TwoVideos |-> NoHist]
    /\ lastRead = [v \in TwoVideos |-> Unread]
    /\ sawTerminal = [v \in TwoVideos |-> FALSE]
    /\ req = NoSearch
    /\ deletion = [v \in TwoVideos |-> NoDeletion]
    /\ ttl = [v \in TwoVideos |-> _set_job_metadata(NoKey)]

\* One worker per job; a job fails on validate_video or on a thumbnail, or
\* skips a frame whose embedding failed.
NextTwo ==
    \E v \in TwoVideos :
        \/ RQStart(v)
        \/ Start(v)
        \/ \E has_audio \in BOOLEAN : ValidateOk(v, has_audio)
        \/ ValidateFail(v)
        \/ \E n \in 0..MaxFrames : ExtractOk(v, n)
        \/ EmbedOk(v)
        \/ EmbedFail(v)
        \/ ThumbOk(v)
        \/ ThumbFail(v)
        \/ IndexOk(v)
        \/ AudioGate(v)
        \/ ExtractAudioOk(v)
        \/ \E n \in 0..MaxSegments : TranscribeOk(v, n)
        \/ SegEmbedOk(v)
        \/ SegIndexOk(v)
        \/ CleanupOk(v, TRUE)
        \/ StatsOk(v)
        \/ MarkComplete(v)
        \/ MarkFailed(v, TRUE)
        \/ RQFinish(v)
        \/ RQFail(v)

SpecTwo == InitTwo /\ [][NextTwo]_vars

OwnPoints(v) == {p \in points : p.video_id = v}

\* The record a job that runs alone ends with, by the statement that ended
\* its execution (worker.py:48, 53, 62-66, 95-100, 153, 157).
AloneRecord(v) ==
    LET w == worker[v]
        stored == InitialMetadata(v)
    IN  IF hist[v].outcome = "completed"
        THEN [stored EXCEPT !.status = "completed", !.progress = Frac(1, 1)]
        ELSE IF "validate_video" \in hist[v].faults
        THEN [stored EXCEPT !.status = "failed", !.error = w.e,
                            !.progress = Frac(1, 20)]
        ELSE [stored EXCEPT !.status = "failed", !.error = w.e,
                            !.progress = FrameProgress(w.frames_indexed,
                                                       w.total_frames),
                            !.frames_processed = w.frames_indexed,
                            !.total_frames = w.total_frames]

\* C31: with two jobs run by two workers, a step that writes one job's
\* record or points leaves the other job's record and points as they were,
\* and each job ends with the record and the points it ends with alone:
\* the record its own execution determines, one visual point per frame it
\* indexed and one audio point per segment.
C31_JobsIndependent ==
    [][\A v \in TwoVideos : \A u \in TwoVideos \ {v} :
        /\ (meta'[v] # meta[v] \/ OwnPoints(v)' # OwnPoints(v)
                \/ worker'[v] # worker[v])
              => /\ meta'[u] = meta[u]
                 /\ OwnPoints(u)' = OwnPoints(u)
                 /\ temp_dir'[u] = temp_dir[u]
        /\ Ended(v)'
              => /\ meta'[v] = AloneRecord(v)'
                 /\ Cardinality(PointsOf(v, "visual"))'
                        = worker'[v].frames_indexed
                 /\ Cardinality(PointsOf(v, "audio"))' = worker'[v].j
                 /\ OwnPoints(v)' = (PointsOf(v, "visual")
                                        \cup PointsOf(v, "audio"))']_vars

C31_Witness ==
    /\ \A v \in TwoVideos : hist[v].outcome = "completed"
    /\ Cardinality(PointsOf("a", "visual")) = MaxFrames
    /\ Cardinality(PointsOf("b", "visual")) = 1
    /\ Cardinality(PointsOf("b", "audio")) = 1
    /\ meta["a"] # meta["b"]

\* C32: the except handler of process_video removes no point: every point
\* of the video that was in the collection when the exception was raised
\* is there when the job has been marked failed and the handler has left.
C32_NoRollback ==
    [][\A v \in Videos :
        worker[v].pc \in {"except", "raised"}
            => /\ OwnPoints(v) \subseteq OwnPoints(v)'
               /\ Cardinality(PointsOf(v, "visual"))' = worker[v].frames_indexed]_vars

C32_Witness ==
    \E v \in Videos :
        /\ hist[v].outcome = "failed"
        /\ meta[v].status = "failed"
        /\ worker[v].frames_indexed = 1
        /\ Cardinality(PointsOf(v, "visual")) = 1

(* ------------------------- expiry of the record ------------------------ *)
\* dt seconds pass in which nothing writes the record of v.  Redis removes
\* the key once the seconds it had left are used up.
Elapse(v, dt) ==
    /\ meta[v] # NoRecord
    /\ ttl[v].idle < 2 * job_metadata_ttl
    /\ IF ttl[v].left # <<>> /\ ttl[v].left[1] <= dt
       THEN /\ meta' = [meta EXCEPT ![v] = NoRecord]
            /\ ttl' = [ttl EXCEPT ![v] = [left |-> <<>>, idle |-> @.idle + dt]]
       ELSE /\ ttl' = [ttl EXCEPT ![v] =
                    [left |-> IF @.left = <<>> THEN <<>>
                              ELSE <<@.left[1] - dt>>,
                     idle |-> @.idle + dt]]
            /\ UNCHANGED meta
    /\ UNCHANGED <<rq, enq, worker, points, temp_dir, hist, lastRead,
                   sawTerminal, req, deletion>>

\* One job from its enqueue to its end, read by the client, with time
\* passing between any two steps.
NextExpiry ==
    \E v \in Videos :
        \/ EnqueueSubmit(v)
        \/ EnqueueStore(v)
        \/ GetStatus(v)
        \/ Backend(v)
        \/ Start(v)
        \/ ValidateOk(v, FALSE)
        \/ ValidateFail(v)
        \/ \E n \in 0..MaxFrames : ExtractOk(v, n)
        \/ EmbedOk(v)
        \/ ThumbOk(v)
        \/ IndexOk(v)
        \/ AudioGate(v)
        \/ CleanupOk(v, TRUE)
        \/ StatsOk(v)
        \/ MarkComplete(v)
        \/ MarkFailed(v, TRUE)
        \/ Crash(v)
        \/ \E dt \in {job_metadata_ttl \div 2, job_metadata_ttl} : Elapse(v, dt)

SpecExpiry == Init /\ [][NextExpiry]_vars

\* C33: every write of a job record sets its expiry to 86400 seconds; a
\* record is in the store exactly as long as fewer than 86400 seconds have
\* passed since its last write, whatever its status; and get_job_status on
\* an expired record returns no record (404), also when the RQ handle is
\* failed.
C33_ExpiryFromLastWrite ==
    [][\A v \in Videos :
        /\ (meta'[v] # meta[v] /\ meta'[v] # NoRecord)
              => ttl'[v] = [left |-> <<job_metadata_ttl>>, idle |-> 0]
        /\ meta'[v] # NoRecord => ttl'[v].idle < job_metadata_ttl
        /\ (meta[v] # NoRecord /\ meta'[v] = NoRecord)
              => ttl'[v].idle >= job_metadata_ttl
        /\ (meta[v] = NoRecord /\ lastRead'[v] # lastRead[v])
              => lastRead'[v] = NoRecord]_vars

C33_Witness ==
    \E v \in Videos :
        /\ hist[v].outcome = "failed"
        /\ rq[v].status = "failed"
        /\ meta[v] = NoRecord
        /\ ttl[v].idle = job_metadata_ttl
        /\ lastRead[v] = NoRecord

\* The hits of the collection that the request sent to Qdrant matches and
\* that score at least its threshold.
Eligible ==
    {req.store[i] : i \in {k \in DOMAIN req.store :
        /\ Matches(req.store[k], req.sent[1].query_filter)
        /\ req.store[k].score >= req.sent[1].score_threshold}}

\* C34: a search for a video whose collection holds, for that video and
\* at or above the score floor, hits in at least top_k distinct 2-second
\* windows returns exactly top_k hits.
C34_TopKReturned ==
    (/\ Returned
     /\ req.sent[1].query_filter.video_id = <<"a">>
     /\ Cardinality({Key(h) : h \in Eligible}) >= req.args[1].top_k)
        => Len(req.results) = req.args[1].top_k

\* C35: once a read of get_job_status, made after the enqueue returned,
\* gave completed or failed, every later read of the same video gives
\* that same status, also after the RQ handle expired; and a read leaves
\* the stored record as it is.
C35_TerminalStable ==
    [][\A v \in Videos :
        (lastRead'[v] # lastRead[v] /\ enq[v] = "stored")
            => /\ meta' = meta
               /\ (/\ IsJob(lastRead[v]) /\ Terminal(lastRead[v].status)
                   /\ lastRead[v].job_id = JobId(v))
                     => /\ IsJob(lastRead'[v])
                        /\ lastRead'[v].status = lastRead[v].status]_vars

\* C36: an execution of process_video that returned ended with
\* mark_job_complete and one that raised ended with mark_job_failed, and
\* the runner writes nothing after it; and when RQ records the end of an
\* execution of a job whose record the enqueue stored, the handle is
\* failed exactly when the stored record is failed.
C36_OneTerminalWrite ==
    [][\A v \in Videos :
        /\ (worker[v].pc \in {"returned", "raised"} /\ worker'[v] # worker[v])
              => meta'[v] = meta[v]
        /\ worker'[v].pc = "returned" => hist'[v].outcome = "completed"
        /\ worker'[v].pc = "raised" => hist'[v].outcome = "failed"
        /\ (/\ rq'[v] # rq[v] /\ rq'[v].status \in {"finished", "failed"}
            /\ enq[v] = "stored")
              => ((rq'[v].status = "failed") <=> (meta'[v].status = "failed"))]_vars

\* C37: when RQ executes a job more than once, the collection still holds
\* at most one point per extracted frame and per transcript segment of the
\* video: no two points of a video have the same type and timestamp.
C37_NoDuplicatePoints ==
    \A p \in points : \A q \in points :
        (p.video_id = q.video_id /\ p.type = q.type
            /\ p.timestamp = q.timestamp) => p = q

\* C38: in a search without a result-type filter, a window contributes
\* hits of one type only, and a returned hit comes before every candidate
\* of the other type in its window.
C38_DedupAcrossTypes ==
    (Returned /\ req.sent[1].query_filter.type = <<>>)
        => \A i \in DOMAIN req.results :
              /\ \A k \in DOMAIN req.results :
                    Key(req.results[k]) = Key(req.results[i])
                        => req.results[k].type = req.results[i].type
              /\ \A n \in DOMAIN req.candidates :
                    (/\ Key(req.candidates[n]) = Key(req.results[i])
                     /\ req.candidates[n].type # req.results[i].type)
                        => \E m \in 1..(n - 1) :
                              req.candidates[m] = req.results[i]

C38_Witness ==
    /\ Returned
    /\ req.sent[1].query_filter.type = <<>>
    /\ req.args[1].top_k = 2
    /\ Len(req.candidates) = 2
    /\ req.candidates[1].type = "audio"
    /\ req.candidates[2].type = "visual"
    /\ Key(req.candidates[1]) = Key(req.candidates[2])
    /\ req.results = <<req.candidates[1]>>

\* C39: a call of delete_video that returned, with process_video indexing
\* points of the same video while it ran, returned the number of points of
\* the video it removed, and left no point of the video in the collection.
C39_DeleteReturnsRemoved ==
    \A v \in Videos :
        deletion[v].last.outcome = "returned"
            => /\ deletion[v].last.returned = deletion[v].last.removed
               /\ count(deletion[v].last.left, v) = 0
====
